---- MODULE Spec2Model ----
(***************************************************************************)
(* Model of scrape_jira.py: a resumable, paginated scraper that walks the  *)
(* projects of PROJECTS_TO_SCRAPE, fetches pages of issues through a       *)
(* retrying HTTP session, transforms every issue, appends the results to   *)
(* OUTPUT_FILE and keeps its cursor in STATE_FILE.                         *)
(*                                                                         *)
(* JSON values are tagged records [t, v]:                                  *)
(*   t = "null"  Python None                                               *)
(*   t = "str"   a string (v is a TLA+ string)                             *)
(*   t = "text"  a string kept as a sequence of tokens (v is a sequence),  *)
(*               used where the code looks inside the string (strip)       *)
(*   t = "obj"   a dict (v is a function from keys to JSON values; a key   *)
(*               that is missing is a key outside DOMAIN v)                *)
(*   t = "list"  a list (v is a sequence of JSON values)                   *)
(*   t = "int"   an integer                                                *)
(***************************************************************************)
EXTENDS Integers, Sequences, FiniteSets, TLC

VARIABLES
    raw,        \* transform_issue_for_llm: the issue handed to the function
    result,     \* transform_issue_for_llm: what the call produced
    pc,         \* fetch_issues: the statement the process is at
    state,      \* fetch_issues: what load_state() returned
    start_project_index,
    i,          \* fetch_issues: index of the project being scraped
    start_at,   \* fetch_issues: offset of the next page
    attempt,    \* session.get: attempts already made for the call in progress
    response,   \* what the last session.get call gave back (response or exception)
    issues,     \* fetch_issues: the page being processed
    n,          \* fetch_issues: position of the for loop inside the page
    stateFile,  \* content of STATE_FILE
    outFile,    \* the lines OUTPUT_FILE held when it was last opened or closed
    outBuf,     \* the lines written to the open file object since; the object
                \* buffers them and passes them on when its buffer is full,
                \* so any number of the oldest may be in OUTPUT_FILE already
    remote,     \* the remote API: number of issues of every project
    kills,      \* how many times the process was killed and restarted
    runs,       \* how many times a finished run was followed by another run
    fetched,    \* issues received in page responses during this run
    fetchedBefore, \* issues received in page responses during earlier runs
    lastSaved,  \* per project index, the offset of the last save_state of this run
    faults,     \* calls that met a failure and issues that were malformed, so far
    failure,    \* the page request that failed last and what the engine held
                \* then, until the next call of session.get has returned
    left,       \* how the project before this one was left in this run
    pageBuf,    \* outBuf as it was when the page being processed came in
    nones,      \* issues of that page the transformer returned None for
    outage      \* the remote end has gone down for good: it answers every
                \* attempt with status 500

----------------------------------------------------------------------------
(* JSON values and the Python operations the code applies to them *)

Null == [t |-> "null", v |-> <<>>]
Str(s) == [t |-> "str", v |-> s]
Text(toks) == [t |-> "text", v |-> toks]
Obj(d) == [t |-> "obj", v |-> d]
List(xs) == [t |-> "list", v |-> xs]
Num(k) == [t |-> "int", v |-> k]

EmptyDict == [k \in {} |-> Null]

\* bool(x) of Python: None, "", {} and [] are false
Truthy(x) ==
    CASE x.t = "null" -> FALSE
      [] x.t = "str"  -> x.v # ""
      [] x.t = "text" -> x.v # <<>>
      [] x.t = "obj"  -> DOMAIN x.v # {}
      [] x.t = "list" -> x.v # <<>>
      [] x.t = "int"  -> x.v # 0

\* x has a .get method (anything else raises AttributeError on x.get)
HasGet(x) == x.t = "obj"

\* d.get(k, default) on a dict d
Get(d, k, default) == IF k \in DOMAIN d.v THEN d.v[k] ELSE default

\* str(x) as an f-string renders it
PyStr(x) ==
    CASE x.t = "null" -> <<"None">>
      [] x.t = "str"  -> <<x.v>>
      [] x.t = "text" -> x.v
      [] OTHER        -> <<"<repr>">>

Whitespace == {" ", "\n", "\t"}

RECURSIVE LStrip(_)
LStrip(toks) ==
    IF toks # <<>> /\ Head(toks) \in Whitespace THEN LStrip(Tail(toks)) ELSE toks

RECURSIVE RStrip(_)
RStrip(toks) ==
    IF toks # <<>> /\ toks[Len(toks)] \in Whitespace
    THEN RStrip(SubSeq(toks, 1, Len(toks) - 1))
    ELSE toks

\* s.strip()
Strip(toks) == RStrip(LStrip(toks))

\* sep.join(parts), parts a sequence of token sequences
RECURSIVE Join(_, _)
Join(sep, parts) ==
    IF parts = <<>> THEN <<>>
    ELSE IF Len(parts) = 1 THEN parts[1]
    ELSE parts[1] \o <<sep>> \o Join(sep, Tail(parts))

----------------------------------------------------------------------------
(* transform_issue_for_llm *)

\* an extraction that raised inside the function's try block
Err == [t |-> "error", v |-> <<>>]

\* obj.get(key, default) without the guard on obj: the lookup fails on None
NameOfUnguarded(obj, key, default) ==
    IF HasGet(obj) THEN Get(obj, key, Str(default)) ELSE Err

\* obj.get(key, default) if obj else default
NameOf(obj, key, default) ==
    IF ~Truthy(obj) THEN Str(default)
    ELSE IF HasGet(obj) THEN Get(obj, key, Str(default))
    ELSE Err

\* the tokens of a string value
Toks(x) == IF x.t = "str" THEN (IF x.v = "" THEN <<>> ELSE <<x.v>>) ELSE x.v

\* one pass of the loop over comment_data['comments']: the line the comment
\* contributes (no tokens when its body is empty after strip), or Err
CommentLine(comment) ==
    IF ~HasGet(comment) THEN Err
    ELSE LET author == NameOf(Get(comment, "author", Null), "displayName", "Unknown")
             bodyv  == Get(comment, "body", Str(""))
         IN  IF author = Err \/ bodyv.t \notin {"str", "text"} THEN Err
             ELSE LET body == Strip(Toks(bodyv))
                  IN  IF body = <<>> THEN Text(<<>>)
                      ELSE Text(<<"Comment by ">> \o PyStr(author) \o <<":\n">>
                                \o body \o <<"\n---">>)

\* all_comments after the loop, as [err, lines]
RECURSIVE AllComments(_)
AllComments(cs) ==
    IF cs = <<>> THEN [err |-> FALSE, lines |-> <<>>]
    ELSE LET line == CommentLine(Head(cs))
             rest == AllComments(Tail(cs))
         IN  IF line = Err \/ rest.err THEN [err |-> TRUE, lines |-> <<>>]
             ELSE IF line.v = <<>> THEN rest
             ELSE [err |-> FALSE, lines |-> <<line.v>> \o rest.lines]

\* comments_text, as [err, text]
CommentsText(comment_data) ==
    IF ~Truthy(comment_data) THEN [err |-> FALSE, text |-> <<"No Comments">>]
    ELSE IF ~HasGet(comment_data) \/ "comments" \notin DOMAIN comment_data.v
         THEN [err |-> FALSE, text |-> <<"No Comments">>]
    ELSE IF comment_data.v["comments"].t # "list" THEN [err |-> TRUE, text |-> <<>>]
    ELSE LET all == AllComments(comment_data.v["comments"].v)
         IN  IF all.err THEN [err |-> TRUE, text |-> <<>>]
             ELSE IF all.lines = <<>> THEN [err |-> FALSE, text |-> <<"No Comments">>]
             ELSE [err |-> FALSE, text |-> Join("\n", all.lines)]

NoneResult == [kind |-> "none", rec |-> <<>>]
RaiseResult == [kind |-> "raise", rec |-> <<>>]

transform_issue_for_llm(issue, project_key) ==
    IF ~HasGet(issue) THEN RaiseResult   \* issue.get fails again in the handler
    ELSE LET fields == Get(issue, "fields", Obj(EmptyDict)) IN
    IF ~Truthy(fields) THEN NoneResult
    ELSE IF ~HasGet(fields) THEN NoneResult
    ELSE LET issue_key   == Get(issue, "key", Null)
             title       == Get(fields, "summary", Str("No Title"))
             description == IF Truthy(Get(fields, "description", Null))
                            THEN Get(fields, "description", Null)
                            ELSE Str("No Description Provided")
             status      == NameOf(Get(fields, "status", Null), "name", "Unknown")
             priority    == NameOf(Get(fields, "priority", Null), "name", "Unknown")
             reporter    == NameOf(Get(fields, "reporter", Null), "displayName", "Unknown")
             assignee    == NameOf(Get(fields, "assignee", Null), "displayName", "Not Assigned")
             comments    == CommentsText(Get(fields, "comment", Null))
         IN  IF Err \in {status, priority, reporter, assignee} \/ comments.err
             THEN NoneResult
             ELSE [kind |-> "record", rec |-> [
                     id            |-> issue_key,
                     project       |-> project_key,
                     title         |-> title,
                     description   |-> description,
                     comments_text |-> comments.text,
                     status        |-> status,
                     priority      |-> priority,
                     reporter      |-> reporter,
                     assignee      |-> assignee,
                     created_at    |-> Get(fields, "created", Str("")),
                     labels        |-> Get(fields, "labels", List(<<>>)),
                     issue_url     |-> <<"https://issues.apache.org/jira/browse/">>
                                       \o PyStr(issue_key),
                     derived_tasks |-> <<
                        [task_type |-> "summarization",
                         input     |-> <<"Description:\n">> \o PyStr(description)
                                       \o <<"\n\nComments:\n">> \o comments.text,
                         output    |-> title],
                        [task_type |-> "classification",
                         input     |-> <<"Title: ">> \o PyStr(title)
                                       \o <<"\nDescription: ">> \o PyStr(description),
                         output    |-> priority],
                        [task_type |-> "question_answering",
                         input     |-> <<"Title: ">> \o PyStr(title)
                                       \o <<"\nDescription: ">> \o PyStr(description)
                                       \o <<"\nComments:\n">> \o comments.text,
                         output    |-> status] >> ]]

----------------------------------------------------------------------------
(* the raw issues the transformer is exercised on *)

\* the dict holding the key/value pairs of ps
DictOf(ps) == [k \in {p[1] : p \in ps} |-> (CHOOSE p \in ps : p[1] = k)[2]]

Named(key, name) == Obj(DictOf({<<key, Str(name)>>}))

\* missing, null or present, for one sub-object of 'fields'
Optional(key, present) == { {}, {<<key, Null>>}, {<<key, present>>} }

SomeComments == List(<<
    Obj(DictOf({<<"author", Named("displayName", "Ann")>>,
                <<"body", Text(<<" ", "fixed", "\n">>)>>})),
    Obj(DictOf({<<"author", Null>>, <<"body", Text(<<" ", "\n">>)>>})),
    Obj(DictOf({<<"body", Str("thanks")>>})) >>)

BlankComments == List(<<
    Obj(DictOf({<<"author", Null>>, <<"body", Text(<<" ", "\n">>)>>})) >>)

Containers == { {}, {<<"comment", Null>>},
                {<<"comment", Obj(DictOf({<<"total", Str("0")>>}))>>},
                {<<"comment", Obj(DictOf({<<"comments", BlankComments>>}))>>},
                {<<"comment", Obj(DictOf({<<"comments", SomeComments>>}))>>} }

Others == { {}, {<<"summary", Str("Crash on start")>>, <<"description", Null>>},
            {<<"summary", Str("Crash on start")>>, <<"description", Str("It crashes")>>} }

\* issues whose 'fields' is a dict in which every sub-object is missing,
\* null or well formed
ShapedIssues ==
    { Obj(DictOf({<<"key", Str("SPARK-1")>>,
                  <<"fields", Obj(DictOf(s \cup p \cup r \cup a \cup c \cup o))>>})) :
        s \in Optional("status", Named("name", "Open")),
        p \in Optional("priority", Named("name", "Major")),
        r \in Optional("reporter", Named("displayName", "Ann")),
        a \in Optional("assignee", Named("displayName", "Bob")),
        c \in Containers,
        o \in Others }

\* issues that are malformed in other ways
OddIssues ==
    { Obj(DictOf({<<"key", Str("SPARK-2")>>})),
      Obj(DictOf({<<"key", Str("SPARK-2")>>, <<"fields", Null>>})),
      Obj(DictOf({<<"key", Str("SPARK-2")>>, <<"fields", Str("x")>>})),
      Obj(DictOf({<<"fields", Obj(DictOf({<<"status", Str("Open")>>}))>>})),
      Obj(DictOf({<<"fields", Obj(DictOf({<<"summary", Null>>,
                    <<"comment", Obj(DictOf({<<"comments", Null>>}))>>}))>>})),
      Obj(DictOf({<<"fields", Obj(DictOf({<<"summary", Null>>,
                    <<"comment", Obj(DictOf({<<"comments",
                         List(<<Obj(DictOf({<<"body", Null>>}))>>)>>}))>>}))>>})),
      Null,
      Str("SPARK-3") }

RawIssues == ShapedIssues \cup OddIssues

Pending == [kind |-> "pending", rec |-> <<>>]

----------------------------------------------------------------------------
(* configuration and bounds *)

\* number of projects in PROJECTS_TO_SCRAPE
NumProjects == 2

PROJECTS_TO_SCRAPE == SubSeq(<<"SPARK", "KAFKA", "BEAM", "FLINK">>, 1, NumProjects)

\* page width, scaled down from the 100 of the source
MAX_RESULTS_PER_PAGE == 2

\* a project of the remote API holds no issue or MaxTotal issues
MaxTotal == 3

\* how many things may happen to the engine, over all runs together: a
\* remote call that meets a failure (a status other than 200, a connection
\* failure, a body that is not an object), an issue that is malformed, a
\* kill followed by a new process, a new run after a run that finished
MaxEvents == 1

\* Retry(total=5, status_forcelist=[429, 500, 502, 503, 504])
RetryTotal == 5
status_forcelist == {429, 500, 502, 503, 504}

\* what the remote end answers to one attempt: an HTTP status with a body
\* that is a JSON object or a JSON list, or nothing at all (status 0: the
\* connection failed)
NetworkFailure == 0
Replies ==
    { [status |-> st, body |-> "none"] : st \in {NetworkFailure, 404, 429, 500} }
    \cup { [status |-> 200, body |-> b] : b \in {"dict", "list"} }

\* the issues the engine meets in a page: well formed, without 'fields',
\* and not an object at all
PageIssues ==
    { Obj(DictOf({<<"key", Str("SPARK-1")>>,
                  <<"fields", Obj(DictOf({<<"summary", Str("Crash on start")>>}))>>})),
      Obj(DictOf({<<"key", Str("SPARK-2")>>})),
      Null }

----------------------------------------------------------------------------
(* STATE_FILE: load_state and save_state *)

Absent == [kind |-> "absent", json |-> Null]
\* the file exists and json.load raises JSONDecodeError on it; "empty" is
\* the file open(STATE_FILE, 'w') leaves before anything is written
Truncated == [kind |-> "empty", json |-> Null]
Garbage == [kind |-> "garbage", json |-> Null]
Parsed(j) == [kind |-> "json", json |-> j]

Cursor(project_index, offset) ==
    Obj(DictOf({<<"current_project_index", Num(project_index)>>,
                <<"current_startAt", Num(offset)>>}))

load_state(file) ==
    IF file.kind = "json" THEN file.json ELSE Cursor(0, 0)

\* what STATE_FILE holds once save_state has returned
save_state(project_index, offset) == Parsed(Cursor(project_index, offset))

\* state[key] evaluates to an integer (anything else raises)
CanIndex(st, key) == st.t = "obj" /\ key \in DOMAIN st.v /\ st.v[key].t = "int"

----------------------------------------------------------------------------
(* Transport: the session of create_fault_tolerant_session *)

NoResponse == [kind |-> "none", status |-> 0, body |-> "none", attempts |-> 0]

\* urllib3 retries the attempt: the status is in status_forcelist, or the
\* connection failed (GET is in allowed_methods)
Retryable(reply) ==
    reply.status = NetworkFailure \/ reply.status \in status_forcelist

\* Retry.is_exhausted after the increment for one more failed attempt: the
\* budget of `total` retries is used up when `made` attempts failed before
is_exhausted(made) == made >= RetryTotal

\* what session.get gives back when the attempt after `made` failed ones is
\* answered by reply and is the last one
session_get(reply, made) ==
    IF Retryable(reply)
    THEN [kind |-> IF reply.status = NetworkFailure THEN "ConnectionError"
                   ELSE "RetryError",
          status |-> 0, body |-> "none", attempts |-> made + 1]
    ELSE [kind |-> "response", status |-> reply.status, body |-> reply.body,
          attempts |-> made + 1]

----------------------------------------------------------------------------
(* the remote API *)

\* the 'issues' of the page at offset s of project p, as <<p, offset>> pairs
PageOf(p, s) ==
    LET last == IF s + MAX_RESULTS_PER_PAGE < remote[p]
                THEN s + MAX_RESULTS_PER_PAGE ELSE remote[p]
    IN  [k \in 1..(IF last > s THEN last - s ELSE 0) |-> <<p, s + k - 1>>]

Range(seq) == { seq[k] : k \in DOMAIN seq }

----------------------------------------------------------------------------
(* fetch_issues *)

vars == <<raw, result, pc, state, start_project_index, i, start_at, attempt,
          response, issues, n, stateFile, outFile, outBuf, remote, kills, runs,
          fetched, fetchedBefore, lastSaved, faults, failure, left, pageBuf,
          nones, outage>>

\* what has happened to the engine so far
Events == faults + kills + runs

NothingSaved == [k \in 0..NumProjects |-> -1]

NoFailure == [kind |-> "none", index |-> 0, offset |-> 0, file |-> Absent]

\* the page request of project `index` at `offset` failed while STATE_FILE
\* was `file`
Failure(kind, index, offset, file) ==
    [kind |-> kind, index |-> index, offset |-> offset, file |-> file]

\* the variables of a process that has just started
Fresh ==
    /\ pc = "start"
    /\ state = Null
    /\ start_project_index = 0
    /\ i = 0
    /\ start_at = 0
    /\ attempt = 0
    /\ response = NoResponse
    /\ issues = <<>>
    /\ n = 0
    /\ outBuf = <<>>
    /\ fetched = {}
    /\ lastSaved = NothingSaved
    /\ failure = NoFailure
    /\ left = "none"
    /\ pageBuf = <<>>
    /\ nones = {}

Init ==
    /\ raw = Null
    /\ result = Pending
    /\ Fresh
    /\ stateFile = Absent
    /\ outFile = <<>>
    /\ remote \in [0..(NumProjects - 1) -> {0, MaxTotal}]
    /\ kills = 0
    /\ runs = 0
    /\ fetchedBefore = {}
    /\ faults = 0
    /\ outage = FALSE

\* lines 187-190
fetch_issues_start ==
    /\ pc = "start"
    /\ state' = load_state(stateFile)
    /\ IF CanIndex(state', "current_project_index")
       THEN /\ start_project_index' = state'.v["current_project_index"].v
            /\ i' = state'.v["current_project_index"].v
            /\ pc' = "for"
       ELSE /\ pc' = "crashed"
            /\ UNCHANGED <<start_project_index, i>>
    /\ UNCHANGED <<raw, result, start_at, attempt, response, issues, n, stateFile,
                   outFile, outBuf, remote, kills, runs, fetched, fetchedBefore,
                   lastSaved, faults>>
    /\ UNCHANGED <<failure, left, pageBuf, nones, outage>>

\* every project starts at offset 0, the saved offset is ignored
StartAtZero(st, first, project_index) == 0

\* the offset a project starts at (line 197)
StartAtFor(st, first, project_index) ==
    IF project_index = first THEN st.v["current_startAt"].v ELSE 0

\* the for loop goes on to one more project after the last of the list
for_exhausted_past(project_index) == project_index > Len(PROJECTS_TO_SCRAPE)

\* line 192: range(start_project_index, len(PROJECTS_TO_SCRAPE)) has no
\* project_index in it
for_exhausted(project_index) == project_index >= Len(PROJECTS_TO_SCRAPE)

\* lines 192-203 and 286: the head of the for loop
for_project ==
    /\ pc = "for"
    /\ IF for_exhausted(i)
       THEN pc' = "done" /\ UNCHANGED start_at
       ELSE IF i = start_project_index /\ ~CanIndex(state, "current_startAt")
       THEN pc' = "crashed" /\ UNCHANGED start_at
       ELSE pc' = "total" /\ start_at' = StartAtFor(state, start_project_index, i)
    /\ UNCHANGED <<raw, result, state, start_project_index, i, attempt, response,
                   issues, n, stateFile, outFile, outBuf, remote, kills, runs,
                   fetched, fetchedBefore, lastSaved, faults>>
    /\ UNCHANGED <<failure, left, pageBuf, nones, outage>>

\* what the remote end may answer to an attempt
Answers == IF outage THEN { [status |-> 500, body |-> "none"] } ELSE Replies

\* one attempt of session.get fails in a way the Retry strategy retries
session_get_retry ==
    /\ pc \in {"total", "page"}
    /\ ~is_exhausted(attempt)
    /\ \E reply \in Answers : Retryable(reply)
    /\ attempt' = attempt + 1
    /\ (attempt = 0 /\ ~outage) => Events < MaxEvents
    /\ faults' = IF attempt = 0 /\ ~outage THEN faults + 1 ELSE faults
    /\ UNCHANGED <<raw, result, pc, state, start_project_index, i, start_at,
                   response, issues, n, stateFile, outFile, outBuf, remote, kills,
                   runs, fetched, fetchedBefore, lastSaved>>
    /\ UNCHANGED <<failure, left, pageBuf, nones, outage>>

\* the last attempt of session.get: the call returns or raises
session_get_return ==
    /\ pc \in {"total", "page"}
    /\ \E reply \in Answers :
        /\ Retryable(reply) => is_exhausted(attempt)
        /\ response' = session_get(reply, attempt)
        /\ LET failed == reply.status # 200 \/ reply.body # "dict"
           IN  /\ (failed /\ attempt = 0) => Events < MaxEvents
               /\ faults' = IF failed /\ attempt = 0 THEN faults + 1 ELSE faults
    /\ attempt' = 0
    /\ pc' = IF pc = "total" THEN "total_got" ELSE "page_got"
    /\ UNCHANGED <<raw, result, state, start_project_index, i, start_at, issues, n,
                   stateFile, outFile, outBuf, remote, kills, runs, fetched,
                   fetchedBefore, lastSaved>>
    /\ failure' = NoFailure
    /\ UNCHANGED <<left, pageBuf, nones, outage>>

\* a break in the place of the `continue`: no project comes after, the for
\* loop is over
break_for(project_index) == NumProjects

\* the project after the `continue` of lines 210 and 213
continue_for(project_index) == project_index + 1

\* lines 206-213 and 292-294: get_total_issues returned or raised
total_result ==
    /\ pc = "total_got"
    /\ LET ok == /\ response.kind = "response"
                 /\ response.status < 400
                 /\ response.body = "dict"
       IN  IF ok /\ remote[i] # 0
           THEN pc' = "page" /\ UNCHANGED <<i, left>>
           ELSE /\ pc' = "for"
                /\ i' = continue_for(i)
                /\ left' = IF ok THEN "zero" ELSE "total_failed"
    /\ response' = NoResponse
    /\ UNCHANGED <<raw, result, state, start_project_index, start_at, attempt,
                   issues, n, stateFile, outFile, outBuf, remote, kills, runs,
                   fetched, fetchedBefore, lastSaved, faults, failure, pageBuf,
                   nones, outage>>

\* a failed request ends the page loop, whatever the failure
page_outcome_fatal(resp, page) ==
    IF resp.kind # "response" THEN "break"
    ELSE IF resp.status # 200 THEN "break"
    ELSE IF resp.body # "dict" THEN "Exception"
    ELSE IF page = <<>> THEN "empty"
    ELSE "process"

\* lines 231-250 and 271-275: the way the body of the while loop takes
\* once session.get has returned `resp` or raised, `page` being the
\* 'issues' of the body
page_outcome(resp, page) ==
    IF resp.kind # "response" THEN "RequestException"
    ELSE IF resp.status = 429 THEN "continue"
    ELSE IF resp.status # 200 THEN "break"
    ELSE IF resp.body # "dict" THEN "Exception"
    ELSE IF page = <<>> THEN "empty"
    ELSE "process"

\* the offset moves on by the length of the page
skip_forward_page(offset, page) == offset + Len(page)

\* line 277
skip_forward(offset, page) == offset + MAX_RESULTS_PER_PAGE

\* lines 231-250 and 271-278: the page request returned or raised
page_result ==
    /\ pc = "page_got"
    /\ response' = NoResponse
    /\ LET outcome == page_outcome(response, PageOf(i, start_at))
       IN  /\ pc' = CASE outcome \in {"RequestException", "continue", "Exception"} -> "page"
                      [] outcome \in {"break", "empty"} -> "close"
                      [] outcome = "process" -> "process"
           /\ start_at' = IF outcome = "Exception"
                          THEN skip_forward(start_at, issues) ELSE start_at
           /\ failure' =
                 CASE outcome = "RequestException" -> Failure("network", i, start_at, stateFile)
                   [] outcome = "continue" -> Failure("rate_limited", i, start_at, stateFile)
                   [] outcome = "break" -> Failure("status", i, start_at, stateFile)
                   [] outcome = "Exception" -> Failure("unexpected", i, start_at, stateFile)
                   [] OTHER -> failure
           /\ left' = CASE outcome = "break" -> "failed"
                        [] outcome = "empty" -> "empty"
                        [] OTHER -> left
           /\ IF outcome = "process"
              THEN /\ issues' = PageOf(i, start_at)
                   /\ n' = 1
                   /\ fetched' = fetched \cup Range(PageOf(i, start_at))
                   /\ pageBuf' = outBuf
                   /\ nones' = {}
              ELSE UNCHANGED <<issues, n, fetched, pageBuf, nones>>
    /\ UNCHANGED <<raw, result, state, start_project_index, i, attempt, stateFile,
                   outFile, outBuf, remote, kills, runs, fetchedBefore, lastSaved,
                   faults, outage>>

\* OUTPUT_FILE opened with mode 'w': what the file held is gone
flushed_truncating(file, buf, k) == SubSeq(buf, 1, k)

\* OUTPUT_FILE opened with mode 'a', once the k oldest buffered lines have
\* been passed on to it
flushed(file, buf, k) == file \o SubSeq(buf, 1, k)

\* lines 253-256 and 274-278: one pass of the loop over the page
process_issue ==
    /\ pc = "process"
    /\ \E issue \in PageIssues :
        LET got == transform_issue_for_llm(issue, PROJECTS_TO_SCRAPE[i + 1]).kind
        IN  /\ got # "record" => Events < MaxEvents
            /\ faults' = IF got = "record" THEN faults ELSE faults + 1
            /\ outBuf' = IF got = "record" THEN Append(outBuf, issues[n]) ELSE outBuf
            /\ nones' = IF got = "none" THEN nones \cup {issues[n]} ELSE nones
            /\ IF got = "raise"
               THEN /\ pc' = "page"
                    /\ start_at' = skip_forward(start_at, issues)
                    /\ issues' = <<>>
                    /\ n' = 0
                    /\ failure' = Failure("unexpected", i, start_at, stateFile)
               ELSE /\ pc' = IF n = Len(issues) THEN "commit" ELSE "process"
                    /\ n' = IF n = Len(issues) THEN n ELSE n + 1
                    /\ UNCHANGED <<start_at, issues, failure>>
    /\ UNCHANGED <<raw, result, state, start_project_index, i, attempt, response,
                   stateFile, outFile, remote, kills, runs, fetched, fetchedBefore,
                   lastSaved, left, pageBuf, outage>>

\* the offset moves on by the width of a full page
next_start_at_width(offset, page) == offset + MAX_RESULTS_PER_PAGE

\* line 259
next_start_at(offset, page) == offset + Len(page)

\* lines 259-263 and 80: the offset moves on and save_state opens STATE_FILE
\* with mode 'w', which empties it
commit_open ==
    /\ pc = "commit"
    /\ start_at' = next_start_at(start_at, issues)
    /\ stateFile' = Truncated
    /\ pc' = "commit_dump"
    /\ UNCHANGED <<raw, result, state, start_project_index, i, attempt, response,
                   issues, n, outFile, outBuf, remote, kills, runs, fetched,
                   fetchedBefore, lastSaved, faults>>
    /\ UNCHANGED <<failure, left, pageBuf, nones, outage>>

\* lines 81 and 266-269: the state is written and the file closed, then the
\* offset is compared with the total of the response
commit_dump ==
    /\ pc = "commit_dump"
    /\ stateFile' = save_state(i, start_at)
    /\ lastSaved' = [lastSaved EXCEPT ![i] = start_at]
    /\ pc' = IF start_at >= remote[i] THEN "close" ELSE "page"
    /\ left' = IF start_at >= remote[i] THEN "complete" ELSE left
    /\ issues' = <<>>
    /\ n' = 0
    /\ UNCHANGED <<raw, result, state, start_project_index, i, start_at, attempt,
                   response, outFile, outBuf, remote, kills, runs, fetched,
                   fetchedBefore, faults, failure, pageBuf, nones, outage>>

\* lines 281-283: the with block is left, which flushes and closes the file
close_output ==
    /\ pc = "close"
    /\ outFile' = flushed(outFile, outBuf, Len(outBuf))
    /\ outBuf' = <<>>
    /\ pc' = "advance"
    /\ UNCHANGED <<raw, result, state, start_project_index, i, start_at, attempt,
                   response, issues, n, stateFile, remote, kills, runs, fetched,
                   fetchedBefore, lastSaved, faults>>
    /\ UNCHANGED <<failure, left, pageBuf, nones, outage>>

\* save_state(i, 0): the project that was just left is saved again
SameCursor(project_index) == [index |-> project_index, offset |-> 0]

\* the arguments of the save_state call of line 284
NextCursor(project_index) == [index |-> project_index + 1, offset |-> 0]

\* lines 284 and 80
advance_open ==
    /\ pc = "advance"
    /\ stateFile' = Truncated
    /\ pc' = "advance_dump"
    /\ UNCHANGED <<raw, result, state, start_project_index, i, start_at, attempt,
                   response, issues, n, outFile, outBuf, remote, kills, runs,
                   fetched, fetchedBefore, lastSaved, faults>>
    /\ UNCHANGED <<failure, left, pageBuf, nones, outage>>

\* lines 284 and 81, then the next pass of the for loop
advance_dump ==
    /\ pc = "advance_dump"
    /\ stateFile' = save_state(NextCursor(i).index, NextCursor(i).offset)
    /\ lastSaved' = [lastSaved EXCEPT ![NextCursor(i).index] = NextCursor(i).offset]
    /\ i' = i + 1
    /\ pc' = "for"
    /\ UNCHANGED <<raw, result, state, start_project_index, start_at, attempt,
                   response, issues, n, outFile, outBuf, remote, kills, runs,
                   fetched, fetchedBefore, faults>>
    /\ UNCHANGED <<failure, left, pageBuf, nones, outage>>

\* a new process starts
Restart ==
    /\ pc' = "start"
    /\ state' = Null
    /\ start_project_index' = 0
    /\ i' = 0
    /\ start_at' = 0
    /\ attempt' = 0
    /\ response' = NoResponse
    /\ issues' = <<>>
    /\ n' = 0
    /\ outBuf' = <<>>
    /\ fetched' = {}
    /\ lastSaved' = NothingSaved
    /\ failure' = NoFailure
    /\ left' = "none"
    /\ pageBuf' = <<>>
    /\ nones' = {}

\* the process is killed and started again: what was in memory is lost,
\* the lines still in the buffer of the file object with it, and the two
\* files stay as they are
Kill ==
    /\ pc \notin {"start", "done", "crashed"}
    /\ Events < MaxEvents
    /\ kills' = kills + 1
    /\ fetchedBefore' = fetchedBefore \cup fetched
    /\ \E k \in 0..Len(outBuf) : outFile' = flushed(outFile, outBuf, k)
    /\ Restart
    /\ UNCHANGED <<raw, result, stateFile, remote, runs, faults, outage>>

\* the script is run again after a run that finished
Rerun ==
    /\ pc = "done"
    /\ Events < MaxEvents
    /\ runs' = runs + 1
    /\ fetchedBefore' = fetchedBefore \cup fetched
    /\ Restart
    /\ UNCHANGED <<raw, result, stateFile, outFile, remote, kills, faults, outage>>

Next ==
    \/ fetch_issues_start
    \/ for_project
    \/ session_get_retry
    \/ session_get_return
    \/ total_result
    \/ page_result
    \/ process_issue
    \/ commit_open
    \/ commit_dump
    \/ close_output
    \/ advance_open
    \/ advance_dump
    \/ Kill
    \/ Rerun

Spec == Init /\ [][Next]_vars

----------------------------------------------------------------------------
(* one run, left to itself, with a remote end that may go down for good *)

\* from now on the remote end answers every attempt with status 500
Outage ==
    /\ ~outage
    /\ outage' = TRUE
    /\ UNCHANGED <<raw, result, pc, state, start_project_index, i, start_at,
                   attempt, response, issues, n, stateFile, outFile, outBuf,
                   remote, kills, runs, fetched, fetchedBefore, lastSaved, faults,
                   failure, left, pageBuf, nones>>

\* a step of the process
Engine ==
    \/ fetch_issues_start
    \/ for_project
    \/ session_get_retry
    \/ session_get_return
    \/ total_result
    \/ page_result
    \/ process_issue
    \/ commit_open
    \/ commit_dump
    \/ close_output
    \/ advance_open
    \/ advance_dump

NextLive ==
    \/ Engine
    \/ Outage

\* the process is not killed and, as long as it has a statement to
\* execute, executes it
SpecLive == Init /\ [][NextLive]_vars /\ WF_vars(Engine)

----------------------------------------------------------------------------
(* the engine started on a STATE_FILE it did not write itself *)

StartFiles ==
    { Absent, Garbage, Truncated,
      Parsed(Obj(EmptyDict)),
      Parsed(List(<<>>)),
      Parsed(Obj(DictOf({<<"current_project_index", Num(0)>>}))),
      Parsed(Cursor(0, 1)),
      Parsed(Cursor(NumProjects, 0)),
      Parsed(Cursor(NumProjects + 1, 0)) }

InitAnyFile ==
    /\ raw = Null
    /\ result = Pending
    /\ Fresh
    /\ stateFile \in StartFiles
    /\ outFile = <<>>
    /\ remote \in [0..(NumProjects - 1) -> {0, MaxTotal}]
    /\ kills = 0
    /\ runs = 0
    /\ fetchedBefore = {}
    /\ faults = 0
    /\ outage = FALSE

SpecAnyFile == InitAnyFile /\ [][Next]_vars

----------------------------------------------------------------------------
(* the transformer on its own *)

InitTransform ==
    /\ raw \in RawIssues
    /\ result = Pending
    /\ Fresh
    /\ stateFile = Absent
    /\ outFile = <<>>
    /\ remote = [p \in 0..(NumProjects - 1) |-> 0]
    /\ kills = 0
    /\ runs = 0
    /\ fetchedBefore = {}
    /\ faults = 0
    /\ outage = FALSE

Transform ==
    /\ result = Pending
    /\ \E project_key \in Range(PROJECTS_TO_SCRAPE) :
         result' = transform_issue_for_llm(raw, project_key)
    /\ UNCHANGED <<raw, pc, state, start_project_index, i, start_at, attempt,
                   response, issues, n, stateFile, outFile, outBuf, remote, kills,
                   runs, fetched, fetchedBefore, lastSaved, faults>>
    /\ UNCHANGED <<failure, left, pageBuf, nones, outage>>

NextTransform == Transform

SpecTransform == InitTransform /\ [][NextTransform]_vars

----------------------------------------------------------------------------
(* properties *)

\* the cursor STATE_FILE holds, when it holds one
SavedIndex == stateFile.json.v["current_project_index"].v
SavedOffset == stateFile.json.v["current_startAt"].v
HoldsCursor(file) ==
    /\ file.kind = "json"
    /\ CanIndex(file.json, "current_project_index")
    /\ CanIndex(file.json, "current_startAt")

AllIssues == { <<p, k>> : p \in 0..(NumProjects - 1), k \in 0..(MaxTotal - 1) }
RemoteIssues == { r \in AllIssues : r[2] < remote[r[1]] }

\* C1: write-then-commit. Whenever STATE_FILE holds the cursor {p, o}, no
\* line of an issue of project p at an offset below o is among the lines
\* the output file object may still hold in its buffer: all of them are in
\* OUTPUT_FILE.
C1_WriteThenCommit ==
    HoldsCursor(stateFile) =>
        \A k \in DOMAIN outBuf :
            ~(outBuf[k][1] = SavedIndex /\ outBuf[k][2] < SavedOffset)

\* C2: at-least-once across restarts. When a run reaches the end of
\* fetch_issues and, over all runs, every remote call was answered 200 and
\* every issue was transformed, OUTPUT_FILE holds a line for every issue of
\* every project.
C2_AtLeastOnce ==
    (pc = "done" /\ faults = 0) => RemoteIssues \subseteq Range(outFile)

\* C3: bounded rework. After one kill, the issues that the restarted run
\* receives again although an earlier run had received them number at most
\* one page.
C3_BoundedRework ==
    kills = 1 => Cardinality(fetched \cap fetchedBefore) <= MAX_RESULTS_PER_PAGE

\* C4: atomic checkpoint save. The process that starts after a kill finds
\* STATE_FILE absent or holding a complete cursor, never an empty or
\* partial file.
C4_AtomicSave ==
    (pc = "start" /\ kills > 0) => (stateFile = Absent \/ HoldsCursor(stateFile))

\* C5: checkpoint load fallback. When STATE_FILE is absent or does not hold
\* a well-formed cursor, load_state returns {0, 0} and the run goes on to
\* the project loop at project 0 instead of terminating.
C5_LoadFallback ==
    [][(pc = "start" /\ ~HoldsCursor(stateFile))
        => (state' = Cursor(0, 0) /\ pc' = "for" /\ i' = 0)]_vars

\* C6: resumability. With {p, o} the cursor load_state returned, every
\* request of the run (a state at "total" or "page" is one in which
\* session.get is called for project i, a page with startAt = start_at) is
\* for a project i >= p, and the pages of project p start at or after o.
C6_Resumability ==
    pc \in {"total", "page"} =>
        /\ i >= state.v["current_project_index"].v
        /\ (pc = "page" /\ i = state.v["current_project_index"].v)
              => start_at >= state.v["current_startAt"].v

\* the run resumed at a cursor with a positive offset, and the page it
\* requested at that offset has been answered
C6_Witness ==
    /\ pc = "page_got"
    /\ response.kind = "response"
    /\ response.status = 200
    /\ kills > 0
    /\ state.v["current_startAt"].v > 0
    /\ i = state.v["current_project_index"].v
    /\ start_at = state.v["current_startAt"].v

\* C7: monotonicity. Within one run, the offset a save_state call writes for
\* a project index is never below the offset the previous save_state call
\* wrote for the same index.
C7_Monotonic ==
    [][(kills' = kills /\ runs' = runs)
        => \A k \in 0..NumProjects :
              lastSaved[k] >= 0 => lastSaved'[k] >= lastSaved[k]]_vars

\* project i was entered after the project before it was left, which wrote
\* {i, 0}, and a page of project i has been committed since
C7_Witness ==
    /\ faults = 0
    /\ kills = 0
    /\ i >= 1
    /\ i < NumProjects
    /\ remote[i - 1] > 0
    /\ lastSaved[i] > 0

\* C8: append-only output. Every step leaves the earlier content of
\* OUTPUT_FILE in place as a prefix of the new content, in a run and from
\* one run to the next.
C8_AppendOnly ==
    [][/\ Len(outFile') >= Len(outFile)
       /\ SubSeq(outFile', 1, Len(outFile)) = outFile]_vars

\* a later run has appended to what an earlier run left: OUTPUT_FILE holds
\* the line of one issue twice
C8_Witness ==
    /\ kills + runs > 0
    /\ \E a, b \in DOMAIN outFile : a < b /\ outFile[a] = outFile[b]

----------------------------------------------------------------------------
(* properties of the project loop *)

\* the cursor the run loaded
LoadedIndex == state.v["current_project_index"].v
LoadedOffset == state.v["current_startAt"].v

\* a step of the run, not the end of the process
SameProcess == kills' = kills /\ runs' = runs

\* C11: partition iteration. A run that loaded {p, o} starts at project p,
\* moves from a project only to the one after it, makes the total-count
\* call of a project only on entering it from the head of the loop, with
\* offset o for project p and 0 for the others, and ends only when the list
\* is used up; no step, a failed total-count call and a failed page request
\* included, ends the process before that.
C11_PartitionIteration ==
    [][SameProcess =>
        /\ (pc = "start" /\ pc' = "for") => i' = state'.v["current_project_index"].v
        /\ pc # "start" => (i' = i \/ (i' = i + 1 /\ pc' = "for"))
        /\ (pc' = "total" /\ pc # "total") =>
              /\ pc = "for"
              /\ i' = i
              /\ i < NumProjects
              /\ start_at' = IF i = LoadedIndex THEN LoadedOffset ELSE 0
        /\ pc' = "done" => i' >= NumProjects
        /\ pc' # "crashed"]_vars

\* the total-count call of a project is made after the page loop of the
\* project before it was given up on a status other than 200
C11_Witness ==
    /\ pc = "total"
    /\ left = "failed"
    /\ i = LoadedIndex + 1
    /\ start_at = 0

\* C12: a failure other than 429 leaves the cursor alone. After a page
\* request of project i was answered with a status other than 200 and 429,
\* the offset stays where it was while the project is left, and STATE_FILE
\* is, when the total-count call of project i + 1 is made, what it was when
\* the request failed.
C12_FailureLeavesCursor ==
    failure.kind = "status" =>
        /\ (pc \in {"close", "advance", "advance_dump"} /\ i = failure.index)
              => start_at = failure.offset
        /\ (pc = "total" /\ i = failure.index + 1) => stateFile = failure.file

\* C13: network failures are never fatal to a project. When a session.get
\* call made for project i, the total-count call or a page request, ends
\* without an HTTP response, the engine stays in project i and makes the
\* same call again.
C13_NetworkNeverFatal ==
    [][(SameProcess /\ pc \in {"total_got", "page_got"}
                    /\ response.kind = "ConnectionError")
        => (i' = i /\ pc' = IF pc = "total_got" THEN "total" ELSE "page")]_vars

\* C14: the cursor equals the fetch position. Whenever a page request is
\* made for project i at offset start_at, load_state would return
\* {i, start_at} from STATE_FILE as it is then.
C14_CursorIsPosition ==
    pc = "page" => load_state(stateFile) = Cursor(i, start_at)

\* C15: the partition advance is persisted. When the total-count call of
\* project i is made after the project before it was left as exhausted (its
\* total was 0, a 200 page came back empty, or the offset had reached the
\* total), STATE_FILE holds {i, 0}.
C15_AdvancePersisted ==
    (pc = "total" /\ left \in {"zero", "empty", "complete"})
        => stateFile = save_state(i, 0)

----------------------------------------------------------------------------
(* properties of the page loop *)

\* the offset the page being processed was requested at
PageStart == issues[1][2]

\* the issues of the page the transformer returned a record for, in page
\* order
Kept == SelectSeq(issues, LAMBDA issue : issue \notin nones)

\* what the commit of a page does: the offset moves on by the length of the
\* page, the lines written for the page are those of the issues the
\* transformer returned a record for, in page order, and STATE_FILE is
\* written once, with the project and the new offset, before the next
\* request
Commits ==
    /\ pc = "process" => stateFile' = stateFile
    /\ pc = "commit" =>
          /\ start_at' = PageStart + Len(issues)
          /\ outBuf = pageBuf \o Kept
          /\ outBuf' = outBuf
          /\ pc' = "commit_dump"
    /\ pc = "commit_dump" =>
          /\ stateFile' = save_state(i, PageStart + Len(issues))
          /\ start_at' = start_at
          /\ outBuf' = outBuf
          /\ pc' \in {"page", "close"}

Transient(resp) ==
    \/ resp.kind \in {"ConnectionError", "RetryError"}
    \/ (resp.kind = "response" /\ resp.status = 429)

\* C17: transient page failures retry in place. When a page request ends
\* on status 429 or without an HTTP response, the engine goes back to the
\* request of the same project at the same offset, with STATE_FILE and the
\* output as they were.
C17_RetryInPlace ==
    [][(SameProcess /\ pc = "page_got" /\ Transient(response))
        => /\ pc' = "page"
           /\ i' = i
           /\ start_at' = start_at
           /\ stateFile' = stateFile
           /\ outFile' = outFile
           /\ outBuf' = outBuf]_vars

\* a page request that followed a committed page has failed and is about to
\* be made again
C17_Witness ==
    /\ pc = "page"
    /\ failure.kind = "network"
    /\ failure.index = i
    /\ failure.offset = start_at
    /\ failure.file = stateFile
    /\ start_at > 0
    /\ lastSaved[i] = start_at

\* C18: skip-forward on an unexpected exception. After an exception other
\* than a requests.RequestException was raised while the page of project i
\* at offset s was fetched or processed, the engine is at the page request
\* of project i at offset s + MAX_RESULTS_PER_PAGE, and STATE_FILE is what
\* it was when the exception was raised.
C18_SkipForward ==
    failure.kind = "unexpected" =>
        /\ pc = "page"
        /\ i = failure.index
        /\ start_at = failure.offset + MAX_RESULTS_PER_PAGE
        /\ stateFile = failure.file

\* the exception was raised after a record of the page had been written
C18_Witness ==
    /\ failure.kind = "unexpected"
    /\ pc = "page"
    /\ Len(outBuf) > Len(pageBuf)
    /\ nones = {}

\* C20: a completed run is a no-op on re-run. When a run ends after the
\* page loop of the last project was entered and left, STATE_FILE holds
\* {N, 0}, N the number of projects; and a run that loaded a cursor with a
\* project index of N or more goes from the load to its end without a
\* request and leaves STATE_FILE and the output as they were.
C20_CompletedRunNoOp ==
    [][SameProcess =>
        /\ (pc' = "done" /\ left' \in {"empty", "complete", "failed"})
              => stateFile' = save_state(NumProjects, 0)
        /\ (pc = "start" /\ pc' = "for" /\ i' >= NumProjects)
              => (stateFile' = stateFile /\ outFile' = outFile /\ outBuf' = outBuf)
        /\ (pc = "for" /\ LoadedIndex >= NumProjects)
              => /\ pc' = "done"
                 /\ stateFile' = stateFile
                 /\ outFile' = outFile
                 /\ outBuf' = outBuf]_vars

\* the run that followed a completed run has loaded {N, 0} and ended: the
\* output is what the completed run left
C20_Witness ==
    /\ pc = "done"
    /\ runs = 1
    /\ LoadedIndex = NumProjects
    /\ stateFile = save_state(NumProjects, 0)
    /\ outFile # <<>>
    /\ fetched = {}

\* C19: termination. In a run in which 429 answers and connection failures
\* come to an end, so that every request is in the end answered with an
\* HTTP status other than 429, the end of fetch_issues is reached.
C19_Termination == <>(pc = "done")

----------------------------------------------------------------------------
(* properties of transform_issue_for_llm *)

SubObjects == {"status", "priority", "reporter", "assignee", "comment"}

FieldsOf(issue) == Get(issue, "fields", Obj(EmptyDict))

MissingOrNull(fields, key) == key \notin DOMAIN fields.v \/ fields.v[key] = Null

WellFormedComment(c) ==
    /\ HasGet(c)
    /\ Get(c, "body", Str("")).t \in {"str", "text"}
    /\ (~MissingOrNull(c, "author") => HasGet(c.v["author"]))

WellFormedContainer(c) ==
    /\ HasGet(c)
    /\ "comments" \in DOMAIN c.v =>
          /\ c.v["comments"].t = "list"
          /\ \A k \in DOMAIN c.v["comments"].v :
                WellFormedComment(c.v["comments"].v[k])

\* an issue with a dict of fields in which each of the five sub-objects is
\* missing, null or well formed
InScope(issue) ==
    /\ HasGet(issue)
    /\ HasGet(FieldsOf(issue))
    /\ \A key \in SubObjects \ {"comment"} :
          MissingOrNull(FieldsOf(issue), key) \/ HasGet(FieldsOf(issue).v[key])
    /\ MissingOrNull(FieldsOf(issue), "comment")
          \/ WellFormedContainer(FieldsOf(issue).v["comment"])

\* the sentinel where the sub-object is missing or null, its name otherwise
Carried(fields, key, name, sentinel, got) ==
    IF MissingOrNull(fields, key) THEN got = Str(sentinel)
    ELSE got = Get(fields.v[key], name, Str(sentinel))

SentinelsIn(issue, rec) ==
    LET fields == FieldsOf(issue)
    IN  /\ Carried(fields, "status", "name", "Unknown", rec.status)
        /\ Carried(fields, "priority", "name", "Unknown", rec.priority)
        /\ Carried(fields, "reporter", "displayName", "Unknown", rec.reporter)
        /\ Carried(fields, "assignee", "displayName", "Not Assigned", rec.assignee)
        /\ MissingOrNull(fields, "comment") => rec.comments_text = <<"No Comments">>

\* C9 as stated: every issue in which any of the five sub-objects are
\* missing or null, all five included, is transformed to a record with the
\* sentinels.
C9_SentinelAlways ==
    (result # Pending /\ InScope(raw)) =>
        (result.kind = "record" /\ SentinelsIn(raw, result.rec))

\* C9: sentinel completeness. Every issue whose 'fields' dict is not empty
\* and in which any of the five sub-objects are missing or null is
\* transformed to a record, never None, that holds the sentinel in each
\* such field and the given name in the others.
C9_SentinelCompleteness ==
    (result # Pending /\ InScope(raw) /\ Truthy(FieldsOf(raw))) =>
        (result.kind = "record" /\ SentinelsIn(raw, result.rec))

\* an issue with all five sub-objects missing or null was transformed
C9_Witness ==
    /\ result.kind = "record"
    /\ InScope(raw)
    /\ \A key \in SubObjects : MissingOrNull(FieldsOf(raw), key)
    /\ \E key \in SubObjects : key \in DOMAIN FieldsOf(raw).v
    /\ result.rec.assignee = Str("Not Assigned")

----------------------------------------------------------------------------
(* properties of the transport *)

\* C10: transport retry contract. A session.get call makes at most 5
\* attempts and, when its retries on a status of status_forcelist are used
\* up, gives the last response back instead of raising.
C10_RetryContract ==
    response.attempts <= 5 /\ response.kind # "RetryError"

====
